---- MODULE Spec2Model ----
(***************************************************************************)
(* Verification model of the plink LED gantry scripts:                     *)
(*   gcode_parser.py            GCodeParser (tokenize, normalize, dispatch)*)
(*   main.py                    G-code driven gantry + LED strip           *)
(*   manual_gantry_control.py   console driven gantry (04_gui_input.py has *)
(*                              the same update_target)                    *)
(*                                                                         *)
(* Text is modelled as sequences of one-character strings.  Python floats  *)
(* are modelled as fixed-point integers in thousandths (1.0 = 1000), with  *)
(* division rounding to nearest; the non-finite floats are separate kinds. *)
(***************************************************************************)
EXTENDS Integers, Sequences, FiniteSets, TLC

(***************************************************************************)
(* Text helpers: str.strip, str.upper, str.split(" "), str.split()         *)
(***************************************************************************)
TAB == "\t"
Whitespace == {" ", TAB}

\* str.upper on the modelled alphabet (the lower-case letters used in inputs)
UpperChar(c) ==
  CASE c = "g" -> "G"
    [] c = "m" -> "M"
    [] c = "x" -> "X"
    [] c = "y" -> "Y"
    [] c = "a" -> "A"
    [] c = "n" -> "N"
    [] OTHER -> c

Upper(s) == [i \in 1..Len(s) |-> UpperChar(s[i])]

RECURSIVE LStrip(_)
LStrip(s) == IF s # <<>> /\ Head(s) \in Whitespace THEN LStrip(Tail(s)) ELSE s

RECURSIVE RStrip(_)
RStrip(s) ==
  IF s # <<>> /\ s[Len(s)] \in Whitespace THEN RStrip(SubSeq(s, 1, Len(s) - 1)) ELSE s

\* str.strip(): removes leading and trailing whitespace only
Strip(s) == RStrip(LStrip(s))

\* s.split(sep) for a one-character sep: every occurrence of sep ends a field,
\* so adjacent separators and a leading separator give empty fields.
RECURSIVE SplitOn(_, _, _)
SplitOn(s, seps, cur) ==
  IF s = <<>> THEN <<cur>>
  ELSE IF Head(s) \in seps THEN <<cur>> \o SplitOn(Tail(s), seps, <<>>)
  ELSE SplitOn(Tail(s), seps, Append(cur, Head(s)))

SplitSpace(s) == SplitOn(s, {" "}, <<>>)

\* s.split() without argument: runs of whitespace separate, no empty fields
SplitWhitespace(s) == SelectSeq(SplitOn(s, Whitespace, <<>>), LAMBDA t : t # <<>>)

(***************************************************************************)
(* Python numeric conversions float(str) and int(str)                      *)
(***************************************************************************)
Digits == {"0", "1", "2", "3", "4", "5", "6", "7", "8", "9"}

DigitVal(c) ==
  CASE c = "0" -> 0 [] c = "1" -> 1 [] c = "2" -> 2 [] c = "3" -> 3 [] c = "4" -> 4
    [] c = "5" -> 5 [] c = "6" -> 6 [] c = "7" -> 7 [] c = "8" -> 8 [] c = "9" -> 9

AllDigits(s) == \A i \in 1..Len(s) : s[i] \in Digits

RECURSIVE DecVal(_)
DecVal(s) == IF s = <<>> THEN 0 ELSE DecVal(SubSeq(s, 1, Len(s) - 1)) * 10 + DigitVal(s[Len(s)])

\* thousandths denoted by the digits after the decimal point
FracMilli(s) ==
  LET d(i) == IF i <= Len(s) THEN DigitVal(s[i]) ELSE 0
  IN d(1) * 100 + d(2) * 10 + d(3)

HasSign(s) == s # <<>> /\ Head(s) \in {"+", "-"}
Unsigned(s) == IF HasSign(s) THEN Tail(s) ELSE s
SignOf(s) == IF s # <<>> /\ Head(s) = "-" THEN -1 ELSE 1

DotAt(s) == IF \E i \in 1..Len(s) : s[i] = "." THEN CHOOSE i \in 1..Len(s) : s[i] = "." ELSE 0

\* result kinds of a conversion: "num" (val holds it), "nan", "inf", "err"
Num(v) == [kind |-> "num", val |-> v]
NaN == [kind |-> "nan", val |-> 0]
Inf(sg) == [kind |-> "inf", val |-> sg]
ConvError == [kind |-> "err", val |-> 0]

\* float(text): optional sign, then NAN / INF / INFINITY in any case, or
\* digits with at most one decimal point and at least one digit.
PyFloat(text) ==
  LET t == Strip(text)
      u == Upper(Unsigned(t))
      k == DotAt(u)
      ip == IF k = 0 THEN u ELSE SubSeq(u, 1, k - 1)
      fp == IF k = 0 THEN <<>> ELSE SubSeq(u, k + 1, Len(u))
  IN IF u = <<"N", "A", "N">> THEN NaN
     ELSE IF u = <<"I", "N", "F">> \/ u = <<"I", "N", "F", "I", "N", "I", "T", "Y">>
       THEN Inf(SignOf(t))
     ELSE IF AllDigits(ip) /\ AllDigits(fp) /\ Len(ip) + Len(fp) > 0
       THEN Num(SignOf(t) * (DecVal(ip) * 1000 + FracMilli(fp)))
     ELSE ConvError

\* int(text): optional sign and at least one digit, nothing else
PyInt(text) ==
  LET t == Strip(text)
      u == Unsigned(t)
  IN IF u # <<>> /\ AllDigits(u) THEN Num(SignOf(t) * DecVal(u)) ELSE ConvError

(***************************************************************************)
(* gcode_parser.py : GCodeParser                                           *)
(***************************************************************************)
EmptyDict == [k \in {} |-> <<>>]

Put(d, key, value) == [k \in DOMAIN d \cup {key} |-> IF k = key THEN value ELSE d[k]]

NoError == "none"
InvalidPolicy == "ValueError: failure_mode must be either 'error' or 'ignore'"
InvalidCommandFamily == "ValueError: Command must be either 'M' or 'G'"
UnregisteredCommand == "ValueError: Command not registered"
IndexError == "IndexError: string index out of range"

NoParser == [callbacks |-> EmptyDict, failure_mode |-> "unconstructed"]
\* record of a call; before: the registry (for a handler call, the strip)
\* when it was made
NoCallback == "no callback"
\* callback: the callback passed to register_callback
NoCall == [op |-> "none", arg |-> <<>>, command |-> <<>>, params |-> EmptyDict,
           before |-> EmptyDict, callback |-> NoCallback]

\* a constructor that does not validate failure_mode
NewParser_AnyPolicy(failure_mode) ==
  [parser |-> [callbacks |-> EmptyDict, failure_mode |-> failure_mode],
   err |-> NoError]

\* GCodeParser.__init__
NewParser(failure_mode) ==
  IF failure_mode # "error" /\ failure_mode # "ignore"
    THEN [parser |-> NoParser, err |-> InvalidPolicy]
    ELSE [parser |-> [callbacks |-> EmptyDict, failure_mode |-> failure_mode],
          err |-> NoError]

\* normalization that drops a zero in second position whatever the length
CleanCommand_CollapseAny(command) ==
  LET c == Upper(Strip(command))
  IN IF Len(c) >= 3 /\ c[2] = "0" THEN <<c[1]>> \o SubSeq(c, 3, Len(c)) ELSE c

\* GCodeParser._clean_command
CleanCommand(command) ==
  LET c == Upper(Strip(command))
  IN IF Len(c) = 3 /\ c[2] = "0" THEN <<c[1], c[3]>> ELSE c

\* the first field of the line taken as it is
ExtractCommand_Raw(line) == SplitSpace(line)[1]

\* GCodeParser._extract_command
ExtractCommand(line) == CleanCommand(SplitSpace(line)[1])

\* the loop body without the test that skips empty tokens
AddParam_KeepEmpty(param_dict, token) ==
  LET param == Upper(Strip(token))
  IN IF param = <<>> THEN Put(param_dict, "", <<>>)
     ELSE Put(param_dict, param[1], Tail(param))

\* the loop body of GCodeParser._extract_params for one token
AddParam(param_dict, token) ==
  LET param == Upper(Strip(token))
  IN IF param = <<>> THEN param_dict
     ELSE Put(param_dict, param[1], Tail(param))

RECURSIVE ParamLoop(_, _)
ParamLoop(tokens, param_dict) ==
  IF tokens = <<>> THEN param_dict
  ELSE ParamLoop(Tail(tokens), AddParam(param_dict, Head(tokens)))

\* GCodeParser._extract_params
ExtractParams(line) == ParamLoop(Tail(SplitSpace(line)), EmptyDict)

\* register_callback that stores the callback without looking at the command
RegisterCallback_Unchecked(p, command, callback) ==
  [parser |-> [p EXCEPT !.callbacks = Put(p.callbacks, CleanCommand(command), callback)],
   err |-> NoError]

\* GCodeParser.register_callback: the registry afterwards and the exception
RegisterCallback(p, command, callback) ==
  LET c == CleanCommand(command)
  IN IF c = <<>> THEN [parser |-> p, err |-> IndexError]
     ELSE IF c[1] # "M" /\ c[1] # "G" THEN [parser |-> p, err |-> InvalidCommandFamily]
     ELSE [parser |-> [p EXCEPT !.callbacks = Put(p.callbacks, c, callback)],
           err |-> NoError]

\* parse_line that treats every parser as permissive
Dispatch_NeverRaises(p, command) ==
  IF command \in DOMAIN p.callbacks
    THEN [call |-> p.callbacks[command], err |-> NoError]
    ELSE [call |-> NoCallback, err |-> NoError]

\* the branch of GCodeParser.parse_line taken for a command
Dispatch(p, command) ==
  IF command \in DOMAIN p.callbacks
    THEN [call |-> p.callbacks[command], err |-> NoError]
    ELSE IF p.failure_mode = "error"
      THEN [call |-> NoCallback, err |-> UnregisteredCommand]
      ELSE [call |-> NoCallback, err |-> NoError]

\* GCodeParser.parse_line up to the call of the handler
ParseLine(p, line) ==
  LET command == ExtractCommand(line)
      params == ExtractParams(line)
      d == Dispatch(p, command)
  IN [line |-> line, command |-> command, params |-> params,
      call |-> d.call, err |-> d.err]

(***************************************************************************)
(* State                                                                   *)
(***************************************************************************)
VARIABLES
  parser,             \* the GCodeParser built by the caller (main.py: main)
  perr,               \* exception raised by the last GCodeParser call
  invoked,            \* callbacks invoked by the last GCodeParser call
  last,               \* the last GCodeParser call: operation, argument, result
  prev,               \* the GCodeParser call before it
  main_pc,            \* position of the main thread
  main_err,           \* exception that ended the main thread
  lineno,             \* number of G-code lines handed to parse_line
  rparser,            \* the GCodeParser built inside run_gcode_file
  pos_target_X,       \* global target of the X group, radians
  pos_target_Y,       \* global target of the Y group, radians
  pos_lock,           \* threading.Lock: its holder, or NoHolder
  initial_positions,  \* positions captured after the settle interval
  velocity_command,   \* last velocity command written to each motor
  pixels,             \* the LED strip buffer
  leds,               \* the colours the LEDs display: the buffer at the last show()
  ctl,                \* control loop: position and locals
  g1,                 \* handle_G1 activations: position and locals
  stored,             \* the pair of targets stored by the last completed write
  con                 \* console input thread (update_target)

ParserVars == <<parser, perr, invoked, last, prev>>
TargetVars == <<pos_target_X, pos_target_Y, pos_lock>>
MainVars == <<main_pc, main_err, lineno, rparser, initial_positions, pixels, leds>>
vars == <<parser, perr, invoked, last, prev, main_pc, main_err, lineno, rparser,
          pos_target_X, pos_target_Y, pos_lock, initial_positions,
          velocity_command, pixels, leds, ctl, g1, stored, con>>

(***************************************************************************)
(* Constants of the scripts and bounds of the model                        *)
(***************************************************************************)
Kp_pos == 5
Kp_pos_Y == 5
LEAD_MM == 8000                \* 8.0 mm per revolution
Pi == 31416                    \* math.pi, in ten-thousandths
num_leds == 8
DeadBand == 500                \* 0.5 rad
SettleTarget == 0              \* pos_target_X = pos_target_Y = 0 at import

MaxLines == 1                  \* lines of the G-code file that are played
NumWriters == 2                \* concurrent handle_G1 activations

Axes == {"X1", "X2", "Y"}
PosValues == {0, 300}          \* motor.position readings, thousandths of rad
Writers == 1..NumWriters

Abs(v) == IF v < 0 THEN -v ELSE v

\* float division, rounding to nearest (d > 0)
RoundDiv(n, d) == (2 * n + d) \div (2 * d)

\* main.py mm_to_radians: (mm * 2 * math.pi) / LEAD_MM
mm_to_radians(mm) == RoundDiv(mm * 2 * Pi, LEAD_MM * 10)

\* main.py handle_G1, the default of params.get: target * LEAD_MM / (2 * math.pi)
radians_to_mm(radians) == RoundDiv(radians * LEAD_MM * 10, 2 * Pi)

NoHolder == <<>>
ControlThread == <<"control_loop">>
WriterThread(w) == <<"handle_G1", w>>
ConsoleThread == <<"update_target">>

(***************************************************************************)
(* Inputs: lines of the G-code file played by main.py.  The X and Y values *)
(* of the G1 lines are numbers or text that float() rejects.               *)
(***************************************************************************)
L_G1_X1_Y1 == <<"G", "1", " ", "X", "1", " ", "Y", "1">>    \* "G1 X1 Y1"
L_G01_X1 == <<"G", "0", "1", " ", "X", "1">>    \* "G01 X1"
L_G1_X1_YA == <<"G", "1", " ", "X", "1", " ", "Y", "A">>    \* "G1 X1 YA"
L_G1_X_Y1 == <<"G", "1", " ", "X", " ", "Y", "1">>    \* "G1 X Y1"
L_M150_R2_Ihalf == <<"M", "1", "5", "0", " ", "R", "2", " ", "I", ".", "5">>    \* "M150 R2 I.5"
L_M150_INAN == <<"M", "1", "5", "0", " ", "R", "2", " ", "I", "n", "a", "n">>    \* "M150 R2 Inan"
L_M150_PA == <<"M", "1", "5", "0", " ", "P", "A", " ", "R", "1", ".", "5", " ", "I", "A">>    \* "M150 PA R1.5 IA"
L_blank == <<>>    \* ""
L_G0_X1 == <<"G", "0", " ", "X", "1">>    \* "G0 X1"

G1Lines == {L_G1_X1_Y1, L_G01_X1, L_G1_X1_YA, L_G1_X_Y1}
M150Lines == {L_M150_R2_Ihalf, L_M150_INAN, L_M150_PA}
PlayLines == G1Lines \cup M150Lines \cup {L_blank, L_G0_X1}

(***************************************************************************)
(* main.py : handle_M150                                                   *)
(***************************************************************************)
FloatError == "ValueError: could not convert string to float"
NaNToInt == "ValueError: cannot convert float NaN to integer"
InfToInt == "OverflowError: cannot convert float infinity to integer"

\* safe_int(params.get(key, 0)): the default replaces text that int() rejects
safe_int(params, key) ==
  IF key \in DOMAIN params
    THEN LET r == PyInt(params[key]) IN IF r.kind = "err" THEN 0 ELSE r.val
    ELSE 0

\* safe_float(params.get(key, 1.0)): the default replaces text that float() rejects
safe_float(params, key) ==
  IF key \in DOMAIN params
    THEN LET r == PyFloat(params[key]) IN IF r.kind = "err" THEN Num(1000) ELSE r
    ELSE Num(1000)

\* int(): truncation toward zero of a value in thousandths
TruncInt(milli) == IF milli >= 0 THEN milli \div 1000 ELSE -((-milli) \div 1000)

\* int(c * brightness) for one colour component
ScaleChannel(c, brightness) ==
  IF brightness.kind = "num" THEN [val |-> TruncInt(c * brightness.val), err |-> NoError]
  ELSE IF brightness.kind = "nan" \/ c = 0 THEN [val |-> 0, err |-> NaNToInt]
  ELSE [val |-> 0, err |-> InfToInt]

\* (int(r * brightness), int(g * brightness), int(b * brightness))
ScaleColour(r, g, b, brightness) ==
  LET sr == ScaleChannel(r, brightness)
      sg == ScaleChannel(g, brightness)
      sb == ScaleChannel(b, brightness)
  IN [val |-> <<sr.val, sg.val, sb.val>>,
      err |-> IF sr.err # NoError THEN sr.err
              ELSE IF sg.err # NoError THEN sg.err ELSE sb.err]

\* handle_M150 that sends an index beyond the strip to the last element
handle_M150_Clamp(params, px) ==
  LET led_index == safe_int(params, "P")
      colour == ScaleColour(safe_int(params, "R"), safe_int(params, "G"),
                            safe_int(params, "B"), safe_float(params, "I"))
  IN IF colour.err # NoError THEN [pixels |-> px, err |-> colour.err]
     ELSE IF led_index = 0 THEN [pixels |-> [i \in DOMAIN px |-> colour.val], err |-> NoError]
     ELSE IF 1 <= led_index /\ led_index < 8
       THEN [pixels |-> [px EXCEPT ![led_index] = colour.val], err |-> NoError]
     ELSE [pixels |-> [px EXCEPT ![num_leds] = colour.val], err |-> NoError]

\* handle_M150(command, params, pixels): the buffer afterwards and the exception
handle_M150(params, px) ==
  LET led_index == safe_int(params, "P")
      r == safe_int(params, "R")
      g == safe_int(params, "G")
      b == safe_int(params, "B")
      brightness == safe_float(params, "I")
      colour == ScaleColour(r, g, b, brightness)
  IN IF led_index = 0
       THEN IF colour.err # NoError THEN [pixels |-> px, err |-> colour.err]
            ELSE [pixels |-> [i \in DOMAIN px |-> colour.val], err |-> NoError]
     ELSE IF 1 <= led_index /\ led_index < 8
       THEN IF colour.err # NoError THEN [pixels |-> px, err |-> colour.err]
            ELSE [pixels |-> [px EXCEPT ![led_index] = colour.val], err |-> NoError]
     ELSE [pixels |-> px, err |-> NoError]

(***************************************************************************)
(* main.py : handle_G1, one activation per writer w                        *)
(***************************************************************************)
IdleG1 == [pc |-> "idle", params |-> EmptyDict, x |-> 0, y |-> 0,
           before |-> <<0, 0>>]

\* float(params.get(key, default))
FloatParam(params, key, default) ==
  IF key \in DOMAIN params THEN PyFloat(params[key]) ELSE Num(default)

\* where the caller of handle_G1 continues: run_gcode_file does not catch
AfterG1(raised) ==
  IF main_pc = "in_G1" THEN (IF raised THEN "crashed" ELSE "play") ELSE main_pc

\* entry of handle_G1(command, params)
\* before: the targets at entry when the caller is the only writer
EnterG1(w, params, before) ==
  g1' = [g1 EXCEPT ![w] = [pc |-> "eval_x", params |-> params, x |-> 0, y |-> 0,
                           before |-> before]]

\* handle_G1 written as update_target is: X is stored as soon as it is parsed
G1_EvalX_StoreEarly(w) ==
  /\ g1[w].pc = "eval_x"
  /\ LET v == FloatParam(g1[w].params, "X", radians_to_mm(pos_target_X))
     IN /\ v.kind \in {"num", "err"}
        /\ g1' = [g1 EXCEPT ![w].pc = IF v.kind = "num" THEN "eval_y" ELSE "raised",
                            ![w].x = v.val]
        /\ pos_target_X' = IF v.kind = "num" THEN mm_to_radians(v.val) ELSE pos_target_X
        /\ main_pc' = AfterG1(v.kind = "err")
        /\ main_err' = IF v.kind = "err" /\ main_pc = "in_G1" THEN FloatError ELSE main_err
  /\ UNCHANGED <<ParserVars, pos_target_Y, pos_lock, lineno, rparser, initial_positions,
                 pixels, leds, velocity_command, ctl, stored, con>>

\* line 85: x = float(params.get("X", pos_target_X * LEAD_MM / (2 * math.pi)))
G1_EvalX(w) ==
  /\ g1[w].pc = "eval_x"
  /\ LET v == FloatParam(g1[w].params, "X", radians_to_mm(pos_target_X))
     IN /\ v.kind \in {"num", "err"}
        /\ g1' = [g1 EXCEPT ![w].pc = IF v.kind = "num" THEN "eval_y" ELSE "raised",
                            ![w].x = v.val]
        /\ main_pc' = AfterG1(v.kind = "err")
        /\ main_err' = IF v.kind = "err" /\ main_pc = "in_G1" THEN FloatError ELSE main_err
  /\ UNCHANGED <<ParserVars, TargetVars, lineno, rparser, initial_positions, pixels, leds,
                 velocity_command, ctl, stored, con>>

\* line 86: y = float(params.get("Y", pos_target_Y * LEAD_MM / (2 * math.pi)))
G1_EvalY(w) ==
  /\ g1[w].pc = "eval_y"
  /\ LET v == FloatParam(g1[w].params, "Y", radians_to_mm(pos_target_Y))
     IN /\ v.kind \in {"num", "err"}
        /\ g1' = [g1 EXCEPT ![w].pc = IF v.kind = "num" THEN "lock" ELSE "raised",
                            ![w].y = v.val]
        /\ main_pc' = AfterG1(v.kind = "err")
        /\ main_err' = IF v.kind = "err" /\ main_pc = "in_G1" THEN FloatError ELSE main_err
  /\ UNCHANGED <<ParserVars, TargetVars, lineno, rparser, initial_positions, pixels, leds,
                 velocity_command, ctl, stored, con>>

\* handle_G1 without the with statement: the writes are not guarded
G1_Lock_Unguarded(w) ==
  /\ g1[w].pc = "lock"
  /\ g1' = [g1 EXCEPT ![w].pc = "write_x"]
  /\ UNCHANGED <<ParserVars, MainVars, TargetVars, velocity_command, ctl, stored, con>>

\* line 88: with pos_lock (acquire)
G1_Lock(w) ==
  /\ g1[w].pc = "lock"
  /\ pos_lock = NoHolder
  /\ pos_lock' = WriterThread(w)
  /\ g1' = [g1 EXCEPT ![w].pc = "write_x"]
  /\ UNCHANGED <<ParserVars, MainVars, pos_target_X, pos_target_Y,
                 velocity_command, ctl, stored, con>>

\* line 89: pos_target_X = mm_to_radians(x)
G1_WriteX(w) ==
  /\ g1[w].pc = "write_x"
  /\ pos_target_X' = mm_to_radians(g1[w].x)
  /\ g1' = [g1 EXCEPT ![w].pc = "write_y"]
  /\ UNCHANGED <<ParserVars, MainVars, pos_target_Y, pos_lock,
                 velocity_command, ctl, stored, con>>

\* line 90: pos_target_Y = mm_to_radians(y); the call has now stored its pair
G1_WriteY(w) ==
  /\ g1[w].pc = "write_y"
  /\ pos_target_Y' = mm_to_radians(g1[w].y)
  /\ stored' = <<mm_to_radians(g1[w].x), mm_to_radians(g1[w].y)>>
  /\ g1' = [g1 EXCEPT ![w].pc = "unlock"]
  /\ UNCHANGED <<ParserVars, MainVars, pos_target_X, pos_lock,
                 velocity_command, ctl, con>>

\* line 90/92: leaving the with block releases pos_lock
G1_Unlock(w) ==
  /\ g1[w].pc = "unlock"
  /\ pos_lock' = NoHolder
  /\ g1' = [g1 EXCEPT ![w].pc = "print"]
  /\ UNCHANGED <<ParserVars, MainVars, pos_target_X, pos_target_Y,
                 velocity_command, ctl, stored, con>>

\* line 92: print(...) reads both targets, then handle_G1 returns
G1_Print(w) ==
  /\ g1[w].pc = "print"
  /\ g1' = [g1 EXCEPT ![w] = IdleG1]
  /\ main_pc' = AfterG1(FALSE)
  /\ UNCHANGED <<ParserVars, TargetVars, main_err, lineno, rparser, initial_positions,
                 pixels, leds, velocity_command, ctl, stored, con>>

(***************************************************************************)
(* main.py : control_loop                                                  *)
(***************************************************************************)
ZeroAxes == [a \in Axes |-> 0]

CtlOff == [pc |-> "off", target_x |-> 0, target_y |-> 0,
           current_positions |-> ZeroAxes, pos_error |-> ZeroAxes,
           failed |-> "none", ran |-> FALSE]

\* the process ends when the main thread dies: the control thread is a daemon
ProcessRunning == main_pc # "crashed"

\* the axes written before the write to axis `failed` raises (order X1, X2, Y)
WrittenBefore(failed) ==
  CASE failed = "none" -> Axes
    [] failed = "X1" -> {}
    [] failed = "X2" -> {"X1"}
    [] failed = "Y" -> {"X1", "X2"}

\* line 60: with pos_lock (acquire)
Ctl_Lock ==
  /\ ProcessRunning
  /\ ctl.pc = "lock"
  /\ pos_lock = NoHolder
  /\ pos_lock' = ControlThread
  /\ ctl' = [ctl EXCEPT !.pc = "read_x"]
  /\ UNCHANGED <<ParserVars, MainVars, pos_target_X, pos_target_Y,
                 velocity_command, g1, stored, con>>

\* line 61: target_x = pos_target_X
Ctl_ReadX ==
  /\ ProcessRunning
  /\ ctl.pc = "read_x"
  /\ ctl' = [ctl EXCEPT !.pc = "read_y", !.target_x = pos_target_X]
  /\ UNCHANGED <<ParserVars, MainVars, TargetVars, velocity_command, g1, stored, con>>

\* line 62: target_y = pos_target_Y
Ctl_ReadY ==
  /\ ProcessRunning
  /\ ctl.pc = "read_y"
  /\ ctl' = [ctl EXCEPT !.pc = "unlock", !.target_y = pos_target_Y]
  /\ UNCHANGED <<ParserVars, MainVars, TargetVars, velocity_command, g1, stored, con>>

\* line 62/64: leaving the with block releases pos_lock
Ctl_Unlock ==
  /\ ProcessRunning
  /\ ctl.pc = "unlock"
  /\ pos_lock' = NoHolder
  /\ ctl' = [ctl EXCEPT !.pc = "drive"]
  /\ UNCHANGED <<ParserVars, MainVars, pos_target_X, pos_target_Y,
                 velocity_command, g1, stored, con>>

\* lines 66-68: the position errors of one tick
PosErrors(target_x, target_y, current_positions) ==
  [a \in Axes |-> (IF a = "Y" THEN target_y ELSE target_x) - current_positions[a]]

\* lines 70-72: the velocities of one tick
Velocities(pos_error) ==
  [a \in Axes |-> (IF a = "Y" THEN Kp_pos_Y ELSE Kp_pos) * pos_error[a]]

\* lines 64-78: read the positions, compute, write the three commands, sleep.
\* A write to the driver may raise; nothing catches it, so the thread ends.
\* positions: the readings the motors may give; failures: the outcomes of the
\* writes ("none", or the axis whose write raises).
Drive(positions, failures) ==
  /\ ProcessRunning
  /\ ctl.pc = "drive"
  /\ \E cur \in positions, failed \in failures :
       LET pos_error == PosErrors(ctl.target_x, ctl.target_y, cur)
           vel == Velocities(pos_error)
       IN /\ velocity_command' =
               [a \in Axes |-> IF a \in WrittenBefore(failed) THEN vel[a]
                               ELSE velocity_command[a]]
          /\ ctl' = [ctl EXCEPT !.pc = IF failed = "none" THEN "lock" ELSE "dead",
                                !.current_positions = cur,
                                !.pos_error = pos_error,
                                !.failed = failed,
                                !.ran = TRUE]
  /\ UNCHANGED <<ParserVars, MainVars, TargetVars, g1, stored, con>>

Ctl_Drive == Drive([Axes -> PosValues], {"none"} \cup Axes)

(***************************************************************************)
(* main.py : init_motors, main, run_gcode_file                             *)
(***************************************************************************)
NotCaptured == [a \in {} |-> 0]
BlankStrip == [i \in 1..num_leds |-> <<0, 0, 0>>]
NoStrip == [i \in {} |-> <<0, 0, 0>>]
ConOff == [pc |-> "off", targets |-> <<>>, msg |-> "none", before |-> <<0, 0>>]

\* lines 26-46: configure the motors and command zero velocity
Main_ZeroCommands ==
  /\ main_pc = "start"
  /\ velocity_command' = ZeroAxes
  /\ main_pc' = "settle"
  /\ UNCHANGED <<ParserVars, TargetVars, main_err, lineno, rparser, initial_positions,
                 pixels, leds, ctl, g1, stored, con>>

\* lines 48-53: after the settle interval, capture the positions
Main_Capture ==
  /\ main_pc = "settle"
  /\ \E p \in [Axes -> PosValues] : initial_positions' = p
  /\ main_pc' = "setup"
  /\ UNCHANGED <<ParserVars, TargetVars, main_err, lineno, rparser, pixels, leds,
                 velocity_command, ctl, g1, stored, con>>

\* main that starts the control thread without waiting for init_motors
Main_Start_Early ==
  /\ main_pc \in {"settle", "setup"}
  /\ pixels' = BlankStrip
  /\ parser' = RegisterCallback(NewParser("error").parser,
                                <<"M", "1", "5", "0">>, "handle_M150").parser
  /\ ctl' = [ctl EXCEPT !.pc = "lock"]
  /\ rparser' = RegisterCallback(
                  RegisterCallback(NewParser("ignore").parser,
                                   <<"G", "1">>, "handle_G1").parser,
                  <<"M", "1", "5", "0">>, "handle_M150").parser
  /\ main_pc' = "play"
  /\ UNCHANGED <<perr, invoked, last, prev, TargetVars, main_err, lineno,
                 initial_positions, leds, velocity_command, g1, stored, con>>

\* main lines 156-163 and run_gcode_file lines 138-144: the strip, the strict
\* parser of main, the control thread, then the parser of run_gcode_file
Main_Start ==
  /\ main_pc = "setup"
  /\ pixels' = BlankStrip
  /\ parser' = RegisterCallback(NewParser("error").parser,
                                <<"M", "1", "5", "0">>, "handle_M150").parser
  /\ ctl' = [ctl EXCEPT !.pc = "lock"]
  /\ rparser' = RegisterCallback(
                  RegisterCallback(NewParser("ignore").parser,
                                   <<"G", "1">>, "handle_G1").parser,
                  <<"M", "1", "5", "0">>, "handle_M150").parser
  /\ main_pc' = "play"
  /\ UNCHANGED <<perr, invoked, last, prev, TargetVars, main_err, lineno,
                 initial_positions, leds, velocity_command, g1, stored, con>>

\* run_gcode_file lines 147-148 for one line of the file: p.parse_line(line.strip());
\* handle_M150 runs to completion inside the call.
PlayLine(p, line) ==
  LET r == ParseLine(p, Strip(line))
      m == handle_M150(r.params, pixels)
  IN /\ lineno' = lineno + 1
     /\ IF r.call = "handle_G1"
          THEN /\ EnterG1(1, r.params, <<pos_target_X, pos_target_Y>>)
               /\ main_pc' = "in_G1"
               /\ UNCHANGED <<pixels, leds, main_err>>
        ELSE IF r.call = "handle_M150"
          THEN /\ pixels' = m.pixels
               /\ leds' = leds          \* no pixels.show() in handle_M150
               /\ main_err' = m.err
               /\ main_pc' = IF m.err = NoError THEN "play" ELSE "crashed"
               /\ UNCHANGED g1
        ELSE /\ main_err' = r.err
             /\ main_pc' = IF r.err = NoError THEN "play" ELSE "crashed"
             /\ UNCHANGED <<pixels, leds, g1>>
     /\ UNCHANGED <<TargetVars, rparser, initial_positions,
                    velocity_command, ctl, stored, con>>

\* run_gcode_file lines 146-148: the loop takes the next line of the file and
\* hands it to the parser built on line 138
Play_Line ==
  /\ main_pc = "play"
  /\ lineno < MaxLines
  /\ \E line \in PlayLines : PlayLine(rparser, line)
  /\ UNCHANGED ParserVars

\* main lines 167-169: the file is exhausted, hold position forever
Play_End ==
  /\ main_pc = "play"
  /\ main_pc' = "hold"
  /\ UNCHANGED <<ParserVars, TargetVars, main_err, lineno, rparser, initial_positions,
                 pixels, leds, velocity_command, ctl, g1, stored, con>>

\* main.py as imported: pos_target_X = 0, pos_target_Y = 0, nothing started
Init ==
  /\ parser = NoParser
  /\ perr = NoError
  /\ invoked = <<>>
  /\ last = NoCall
  /\ prev = NoCall
  /\ main_pc = "start"
  /\ main_err = NoError
  /\ lineno = 0
  /\ rparser = NoParser
  /\ pos_target_X = SettleTarget
  /\ pos_target_Y = SettleTarget
  /\ pos_lock = NoHolder
  /\ initial_positions = NotCaptured
  /\ velocity_command = ZeroAxes
  /\ pixels = NoStrip
  /\ leds = BlankStrip
  /\ ctl = CtlOff
  /\ g1 = [w \in Writers |-> IdleG1]
  /\ stored = <<SettleTarget, SettleTarget>>
  /\ con = ConOff

HandleG1Step ==
  \E w \in Writers :
    \/ G1_EvalX(w)
    \/ G1_EvalY(w)
    \/ G1_Lock(w)
    \/ G1_WriteX(w)
    \/ G1_WriteY(w)
    \/ G1_Unlock(w)
    \/ G1_Print(w)

ControlStep ==
  \/ Ctl_Lock
  \/ Ctl_ReadX
  \/ Ctl_ReadY
  \/ Ctl_Unlock
  \/ Ctl_Drive

Next ==
  \/ Main_ZeroCommands
  \/ Main_Capture
  \/ Main_Start
  \/ Play_Line
  \/ Play_End
  \/ HandleG1Step
  \/ ControlStep

Spec == Init /\ [][Next]_vars

(***************************************************************************)
(* SpecG1: handle_G1 called by NumWriters concurrent callers while the     *)
(* control loop runs; the motors rest at the captured positions and the    *)
(* driver accepts every write.                                             *)
(***************************************************************************)
L_G1_X2_Y2 == <<"G", "1", " ", "X", "2", " ", "Y", "2">>    \* "G1 X2 Y2"
\* the parameters handle_G1 is called with; "G01 X1" carries no Y
G1CallParams == {ExtractParams(L_G1_X1_Y1), ExtractParams(L_G1_X2_Y2),
                 ExtractParams(L_G01_X1)}

StrictParser == RegisterCallback(NewParser("error").parser,
                                 <<"M", "1", "5", "0">>, "handle_M150").parser
PlayParser == RegisterCallback(
                RegisterCallback(NewParser("ignore").parser,
                                 <<"G", "1">>, "handle_G1").parser,
                <<"M", "1", "5", "0">>, "handle_M150").parser

\* main.py once main has started the control thread
Init_G1 ==
  /\ parser = StrictParser
  /\ perr = NoError
  /\ invoked = <<>>
  /\ last = NoCall
  /\ prev = NoCall
  /\ main_pc = "callers"
  /\ main_err = NoError
  /\ lineno = 0
  /\ rparser = PlayParser
  /\ pos_target_X = SettleTarget
  /\ pos_target_Y = SettleTarget
  /\ pos_lock = NoHolder
  /\ initial_positions = ZeroAxes
  /\ velocity_command = ZeroAxes
  /\ pixels = BlankStrip
  /\ leds = BlankStrip
  /\ ctl = [CtlOff EXCEPT !.pc = "lock"]
  /\ g1 = [w \in Writers |-> IdleG1]
  /\ stored = <<SettleTarget, SettleTarget>>
  /\ con = ConOff

\* a caller invokes handle_G1(command, params)
Call_G1(w) ==
  /\ g1[w].pc = "idle"
  /\ \E params \in G1CallParams : EnterG1(w, params, IdleG1.before)
  /\ UNCHANGED <<ParserVars, MainVars, TargetVars, velocity_command, ctl, stored, con>>

Ctl_DriveAtRest == Drive({initial_positions}, {"none"})

Next_G1 ==
  \/ \E w \in Writers : Call_G1(w)
  \/ HandleG1Step
  \/ Ctl_Lock
  \/ Ctl_ReadX
  \/ Ctl_ReadY
  \/ Ctl_Unlock
  \/ Ctl_DriveAtRest

SpecG1 == Init_G1 /\ [][Next_G1]_vars

(***************************************************************************)
(* SpecM150: handle_M150 applied to the strip, call after call, with the   *)
(* parameters of M150 lines.                                               *)
(***************************************************************************)
M_P0 == <<"M", "1", "5", "0", " ", "P", "0", " ", "R", "2", " ", "I", ".", "5">>    \* "M150 P0 R2 I.5"
M_P3 == <<"M", "1", "5", "0", " ", "P", "3", " ", "G", "2">>    \* "M150 P3 G2"
M_P7 == <<"M", "1", "5", "0", " ", "P", "7", " ", "B", "1">>    \* "M150 P7 B1"
M_P8 == <<"M", "1", "5", "0", " ", "P", "8", " ", "B", "1">>    \* "M150 P8 B1"
M_P9 == <<"M", "1", "5", "0", " ", "P", "9", " ", "R", "1", " ", "I", "n", "a", "n">>    \* "M150 P9 R1 Inan"
M_Pneg == <<"M", "1", "5", "0", " ", "P", "-", "1", " ", "R", "1">>    \* "M150 P-1 R1"
M150Calls == M150Lines \cup {M_P0, M_P3, M_P7, M_P8, M_P9, M_Pneg}

Init_M150 ==
  /\ pixels = BlankStrip
  /\ leds = BlankStrip
  /\ parser = NoParser
  /\ perr = NoError
  /\ invoked = <<>>
  /\ last = NoCall
  /\ prev = NoCall
  /\ main_pc = "caller"
  /\ main_err = NoError
  /\ lineno = 0
  /\ rparser = NoParser
  /\ pos_target_X = SettleTarget
  /\ pos_target_Y = SettleTarget
  /\ pos_lock = NoHolder
  /\ initial_positions = NotCaptured
  /\ velocity_command = ZeroAxes
  /\ ctl = CtlOff
  /\ g1 = [w \in Writers |-> IdleG1]
  /\ stored = <<SettleTarget, SettleTarget>>
  /\ con = ConOff

\* handle_M150("M150", params, pixels) with the parameters of a line
Call_M150 ==
  /\ \E line \in M150Calls :
       LET params == ExtractParams(line)
           m == handle_M150(params, pixels)
       IN /\ pixels' = m.pixels
          /\ leds' = leds          \* no pixels.show() in handle_M150
          /\ perr' = m.err
          /\ last' = [NoCall EXCEPT !.op = "handle_M150", !.arg = line,
                                    !.command = ExtractCommand(line),
                                    !.params = params, !.before = pixels]
  /\ prev' = last
  /\ UNCHANGED <<parser, invoked, main_pc, main_err, lineno, rparser, initial_positions,
                 TargetVars, velocity_command, ctl, g1, stored, con>>

Next_M150 == Call_M150

SpecM150 == Init_M150 /\ [][Next_M150]_vars

(***************************************************************************)
(* Properties of main.py                                                   *)
(***************************************************************************)

\* C1: every pair (target_x, target_y) snapshotted by a control_loop tick is
\* the pair stored by one single handle_G1 call (the last one that completed
\* its two writes) or the initial pair, under any interleaving of the writers.
C1_SnapshotIsOneWrite ==
  ctl.pc = "unlock" => <<ctl.target_x, ctl.target_y>> = stored

\* a tick snapshots the pair of one call while another call with a different
\* pair is waiting for the lock
C1_Witness ==
  /\ ctl.pc = "unlock"
  /\ <<ctl.target_x, ctl.target_y>> = <<mm_to_radians(2000), mm_to_radians(2000)>>
  /\ \E w \in Writers : g1[w].pc = "lock" /\ g1[w].x = 1000

\* C2: a tick that runs before any G-code line is dispatched uses targets
\* equal to the positions captured after the settle interval, so that motors
\* that have not moved since are all commanded zero velocity.
C2_StartupTargetIsCapture ==
  (ctl.ran /\ lineno = 0) =>
     /\ ctl.target_x = initial_positions["X1"]
     /\ ctl.target_y = initial_positions["Y"]
     /\ (ctl.failed = "none" /\ ctl.current_positions = initial_positions
           => velocity_command = ZeroAxes)

\* C3: in every tick an axis whose |target - position| is below the dead-band
\* threshold is commanded exactly 0.
C3_DeadBandZero ==
  ctl.ran =>
    \A a \in WrittenBefore(ctl.failed) :
      Abs(ctl.pos_error[a]) < DeadBand => velocity_command[a] = 0

\* C4: a velocity write that raises does not end the control loop: the loop
\* goes on to its next tick.
C4_FailedWriteKeepsLoop ==
  ctl.failed # "none" => ctl.pc # "dead"

BadNumber(params, key) == key \in DOMAIN params /\ PyFloat(params[key]).kind = "err"
GoodNumber(params, key) == key \in DOMAIN params /\ PyFloat(params[key]).kind = "num"

C7_M150NeverRaises ==
  ~(main_pc = "crashed" /\ main_err \in {NaNToInt, InfToInt})

\* positions of handle_G1 whose next step reads or writes a target: the
\* default arguments of lines 85-86 (evaluated on every call), the writes of
\* lines 89-90, the print of line 92; and of control_loop: lines 61-62
G1_TargetAccess == {"eval_x", "eval_y", "write_x", "write_y", "print"}
Ctl_TargetAccess == {"read_x", "read_y"}

\* C14: once the threads run, every read and every write of pos_target_X
\* and pos_target_Y, by the control loop, the G1 handler or the status
\* print, is made by a thread that holds pos_lock.
C14_TargetAccessUnderLock ==
  /\ ctl.pc \in Ctl_TargetAccess => pos_lock = ControlThread
  /\ \A w \in Writers : g1[w].pc \in G1_TargetAccess => pos_lock = WriterThread(w)

C20_BadG1KeepsLoop == main_err = FloatError => ProcessRunning

\* C22: startup goes Uninitialized -> Stabilizing -> Holding: the zero
\* velocity commands are written before the position reference is captured,
\* and until the capture is complete no velocity command is non-zero, no
\* input source has written a target and neither the control thread nor an
\* input thread runs.
C22_StartupOrder ==
  /\ [](initial_positions = NotCaptured =>
          /\ velocity_command = ZeroAxes
          /\ pos_target_X = SettleTarget
          /\ pos_target_Y = SettleTarget
          /\ ctl.pc = "off"
          /\ con.pc = "off"
          /\ \A w \in Writers : g1[w].pc = "idle")
  /\ [][(initial_positions = NotCaptured /\ initial_positions' # NotCaptured) =>
          (main_pc = "settle" /\ velocity_command = ZeroAxes)]_vars

\* after the capture the control loop has written a non-zero command and
\* the G1 handler has written a target
C22_Witness ==
  /\ initial_positions # NotCaptured
  /\ ctl.ran
  /\ velocity_command # ZeroAxes
  /\ pos_target_X # SettleTarget

(***************************************************************************)
(* SpecParser: a client constructs a GCodeParser, registers callbacks and  *)
(* parses lines, in any order.                                             *)
(***************************************************************************)
P_Example == <<"G", "1", " ", "X", "5", "0", ".", "0", " ", "Y", "2", "5", ".", "0">>    \* "G1 X50.0 Y25.0"
P_Spaces == <<"G", "1", " ", " ", "X", "5", "0", ".", "0", " ", " ", " ", "Y", "2", "5", ".", "0">>    \* "G1  X50.0   Y25.0"
P_Tabs == <<"G", "1", TAB, "X", "5", "0", ".", "0", TAB, "Y", "2", "5", ".", "0">>    \* "G1\tX50.0\tY25.0"
P_Leading == <<" ", "G", "1", " ", "X", "5", "0", ".", "0", " ", "Y", "2", "5", ".", "0">>    \* " G1 X50.0 Y25.0"
P_Empty == <<>>    \* ""
P_M5 == <<"M", "5">>    \* "M5"
P_g01 == <<"g", "0", "1", " ", "x", "1", " ", "X", "2">>    \* "g01 x1 X2"
P_G1_XA == <<"G", "1", " ", "X", "A">>    \* "G1 XA"
P_Blank == <<" ", " ">>    \* "  "
P_Tab == <<TAB>>    \* "\t"
ParseInputs == {P_Example, P_Spaces, P_Tabs, P_Leading, P_Empty, P_M5, P_g01, P_G1_XA,
                P_Blank, P_Tab}

R_G01 == <<"G", "0", "1">>    \* "G01"
R_m5 == <<"m", "5">>    \* "m5"
R_X1 == <<"X", "1">>    \* "X1"
R_Empty == <<>>    \* ""
R_Blank == <<" ">>    \* " "
RegisterInputs == {R_G01, R_m5, R_X1, R_Empty, R_Blank}
Callbacks == {"cbA", "cbB"}
FailureModes == {"error", "ignore", "strict", "ERROR"}

\* the callbacks of this client: cbA accepts any parameters; cbB converts its
\* X parameter as handle_G1 does (main.py line 85) and so raises ValueError
\* when float() rejects the text
HandlerError(callback, params) ==
  IF callback = "cbB" /\ "X" \in DOMAIN params /\ PyFloat(params["X"]).kind = "err"
    THEN FloatError
    ELSE NoError

\* the exception leaving parse_line: its own, or the one its handler raises
LineError(r) == IF r.err # NoError THEN r.err ELSE HandlerError(r.call, r.params)

\* lines handed to parse_lines and the longest list of them
BatchLines == {P_M5, P_G1_XA}
MaxBatch == 3
Batches == UNION {[1..n -> BatchLines] : n \in 0..MaxBatch}

\* the handler call made for line i of a list
HandlerCall(r, i) ==
  [callback |-> r.call, command |-> r.command, params |-> r.params, line |-> i]

\* parse_lines with a loop body that catches the exception of a line and
\* goes on with the next line
RECURSIVE ParseLinesCatching(_, _, _, _, _)
ParseLinesCatching(p, lines, i, log, err) ==
  IF i > Len(lines) THEN [invoked |-> log, err |-> err]
  ELSE LET r == ParseLine(p, lines[i])
           log2 == IF r.call = NoCallback THEN log ELSE Append(log, HandlerCall(r, i))
       IN ParseLinesCatching(p, lines, i + 1, log2,
                             IF err = NoError THEN LineError(r) ELSE err)

\* GCodeParser.parse_lines from line i on: the handler calls made (after
\* those in log) and the exception that ends the loop
RECURSIVE ParseLinesFrom(_, _, _, _)
ParseLinesFrom(p, lines, i, log) ==
  IF i > Len(lines) THEN [invoked |-> log, err |-> NoError]
  ELSE LET r == ParseLine(p, lines[i])
           log2 == IF r.call = NoCallback THEN log ELSE Append(log, HandlerCall(r, i))
       IN IF LineError(r) # NoError
            THEN [invoked |-> log2, err |-> LineError(r)]
            ELSE ParseLinesFrom(p, lines, i + 1, log2)


Constructed == parser.failure_mode # "unconstructed"

\* parser = GCodeParser(failure_mode)
P_Construct ==
  /\ ~Constructed
  /\ \E mode \in FailureModes :
       LET r == NewParser(mode)
       IN /\ parser' = r.parser
          /\ perr' = r.err
          /\ last' = [NoCall EXCEPT !.op = "__init__", !.arg = mode]
  /\ invoked' = <<>>
  /\ prev' = last
  /\ UNCHANGED <<MainVars, TargetVars, velocity_command, ctl, g1, stored, con>>

\* parser.register_callback(command, callback)
P_Register ==
  /\ Constructed
  /\ \E command \in RegisterInputs, callback \in Callbacks :
       LET r == RegisterCallback(parser, command, callback)
       IN /\ parser' = r.parser
          /\ perr' = r.err
          /\ last' = [NoCall EXCEPT !.op = "register_callback", !.arg = command,
                                    !.before = parser.callbacks,
                                    !.callback = callback]
  /\ invoked' = <<>>
  /\ prev' = last
  /\ UNCHANGED <<MainVars, TargetVars, velocity_command, ctl, g1, stored, con>>

\* parse_line that fills one dictionary kept from line to line
P_ParseLine_SharedParams ==
  /\ Constructed
  /\ \E line \in ParseInputs :
       LET r == ParseLine(parser, line)
           params == ParamLoop(Tail(SplitSpace(line)), last.params)
       IN /\ perr' = LineError(r)
          /\ invoked' = IF r.call = NoCallback THEN <<>>
                        ELSE <<[callback |-> r.call, command |-> r.command,
                                params |-> params]>>
          /\ last' = [NoCall EXCEPT !.op = "parse_line", !.arg = line,
                                    !.command = r.command, !.params = params,
                                    !.before = parser.callbacks]
  /\ prev' = last
  /\ UNCHANGED <<parser, MainVars, TargetVars, velocity_command, ctl, g1, stored, con>>

\* parser.parse_line(line)
P_ParseLine ==
  /\ Constructed
  /\ \E line \in ParseInputs :
       LET r == ParseLine(parser, line)
       IN /\ perr' = LineError(r)
          /\ invoked' = IF r.call = NoCallback THEN <<>>
                        ELSE <<[callback |-> r.call, command |-> r.command,
                                params |-> r.params]>>
          /\ last' = [NoCall EXCEPT !.op = "parse_line", !.arg = line,
                                    !.command = r.command, !.params = r.params,
                                    !.before = parser.callbacks]
  /\ prev' = last
  /\ UNCHANGED <<parser, MainVars, TargetVars, velocity_command, ctl, g1, stored, con>>

\* parse_lines that catches the exception of each line
P_ParseLines_CatchEach ==
  /\ Constructed
  /\ \E lines \in Batches :
       LET r == ParseLinesCatching(parser, lines, 1, <<>>, NoError)
       IN /\ perr' = r.err
          /\ invoked' = r.invoked
          /\ last' = [NoCall EXCEPT !.op = "parse_lines", !.arg = lines,
                                    !.before = parser.callbacks]
  /\ prev' = last
  /\ UNCHANGED <<parser, MainVars, TargetVars, velocity_command, ctl, g1, stored, con>>

\* parser.parse_lines(lines)
P_ParseLines ==
  /\ Constructed
  /\ \E lines \in Batches :
       LET r == ParseLinesFrom(parser, lines, 1, <<>>)
       IN /\ perr' = r.err
          /\ invoked' = r.invoked
          /\ last' = [NoCall EXCEPT !.op = "parse_lines", !.arg = lines,
                                    !.before = parser.callbacks]
  /\ prev' = last
  /\ UNCHANGED <<parser, MainVars, TargetVars, velocity_command, ctl, g1, stored, con>>

Init_Parser ==
  /\ parser = NoParser
  /\ perr = NoError
  /\ invoked = <<>>
  /\ last = NoCall
  /\ prev = NoCall
  /\ main_pc = "client"
  /\ main_err = NoError
  /\ lineno = 0
  /\ rparser = NoParser
  /\ pos_target_X = SettleTarget
  /\ pos_target_Y = SettleTarget
  /\ pos_lock = NoHolder
  /\ initial_positions = NotCaptured
  /\ velocity_command = ZeroAxes
  /\ pixels = NoStrip
  /\ leds = BlankStrip
  /\ ctl = CtlOff
  /\ g1 = [w \in Writers |-> IdleG1]
  /\ stored = <<SettleTarget, SettleTarget>>
  /\ con = ConOff

Next_Parser ==
  \/ P_Construct
  \/ P_Register
  \/ P_ParseLine

SpecParser == Init_Parser /\ [][Next_Parser]_vars

\* SpecBatch: a client constructs a GCodeParser, registers callbacks and
\* hands lists of lines to parse_lines.
Next_Batch ==
  \/ P_Construct
  \/ P_Register
  \/ P_ParseLines

SpecBatch == Init_Parser /\ [][Next_Batch]_vars

(***************************************************************************)
(* SpecClean: _clean_command applied to a command text, then to its own    *)
(* result.                                                                 *)
(***************************************************************************)
CleanAlphabet == {"g", "G", "M", "0", "1", "5", " "}
MaxCommandLen == 4
CommandTexts == UNION {[1..n -> CleanAlphabet] : n \in 0..MaxCommandLen}

Init_Clean ==
  /\ \E c \in CommandTexts : last = [NoCall EXCEPT !.op = "input", !.arg = c]
  /\ parser = NoParser
  /\ perr = NoError
  /\ invoked = <<>>
  /\ prev = NoCall
  /\ main_pc = "client"
  /\ main_err = NoError
  /\ lineno = 0
  /\ rparser = NoParser
  /\ pos_target_X = SettleTarget
  /\ pos_target_Y = SettleTarget
  /\ pos_lock = NoHolder
  /\ initial_positions = NotCaptured
  /\ velocity_command = ZeroAxes
  /\ pixels = NoStrip
  /\ leds = BlankStrip
  /\ ctl = CtlOff
  /\ g1 = [w \in Writers |-> IdleG1]
  /\ stored = <<SettleTarget, SettleTarget>>
  /\ con = ConOff

\* command = self._clean_command(command): on the text first, then on the
\* result of the call before
Clean_Apply ==
  /\ last.op \in {"input", "_clean_command"}
  /\ prev.op # "_clean_command"
  /\ LET command == IF last.op = "input" THEN last.arg ELSE last.command
     IN last' = [NoCall EXCEPT !.op = "_clean_command", !.arg = command,
                               !.command = CleanCommand(command)]
  /\ prev' = last
  /\ UNCHANGED <<parser, perr, invoked, MainVars, TargetVars, velocity_command,
                 ctl, g1, stored, con>>

Next_Clean == Clean_Apply

SpecClean == Init_Clean /\ [][Next_Clean]_vars

(***************************************************************************)
(* Properties of gcode_parser.py                                           *)
(***************************************************************************)

\* C8: parse_line on a line whose normalized command has no registered
\* callback raises the unregistered-command error and invokes no callback
\* under failure_mode "error"; under "ignore" it raises nothing, invokes no
\* callback and leaves the registry as it was.
C8_UnregisteredCommand ==
  (last.op = "parse_line" /\ last.command \notin DOMAIN last.before) =>
     /\ invoked = <<>>
     /\ parser.callbacks = last.before
     /\ parser.failure_mode = "error" => perr = UnregisteredCommand
     /\ parser.failure_mode = "ignore" => perr = NoError

\* a strict parser with a non-empty registry has rejected a line
C8_Witness ==
  /\ last.op = "parse_line"
  /\ parser.failure_mode = "error"
  /\ parser.callbacks # EmptyDict
  /\ last.command \notin DOMAIN parser.callbacks
  /\ perr = UnregisteredCommand

\* C9: register_callback with a command whose normalized form does not begin
\* with G or M, the empty and the whitespace-only string included, fails with
\* the invalid-command-family ValueError and leaves the registry unchanged.
C9_BadFamilyIsValueError ==
  LET c == CleanCommand(last.arg)
  IN (last.op = "register_callback" /\ (c = <<>> \/ c[1] \notin {"G", "M"})) =>
       perr = InvalidCommandFamily /\ parser.callbacks = last.before

HasTab(line) == \E i \in 1..Len(line) : line[i] = TAB
LeadingSpace(line) == line # <<>> /\ line[1] = " "
BothParsed == last.op = "parse_line" /\ prev.op = "parse_line"

\* C10 as claimed: the command and the ParameterSet depend only on the
\* whitespace-separated fields of the line, and the command is the first of
\* them, whatever whitespace separates or precedes the fields.
C10_WhitespaceSeparated ==
  /\ (BothParsed /\ SplitWhitespace(last.arg) = SplitWhitespace(prev.arg)) =>
        last.command = prev.command /\ last.params = prev.params
  /\ (last.op = "parse_line" /\ SplitWhitespace(last.arg) # <<>>) =>
        last.command = CleanCommand(SplitWhitespace(last.arg)[1])

\* C10 amended: for lines that do not begin with a space and contain no tab,
\* the command and the ParameterSet depend only on the space-separated
\* non-empty fields, one space or several; the command is the first field;
\* "G1 X50.0 Y25.0" gives G1 and {X: "50.0", Y: "25.0"}.
C10_SpaceSeparated ==
  LET plain(line) == ~HasTab(line) /\ ~LeadingSpace(line)
  IN /\ (/\ BothParsed
         /\ plain(last.arg)
         /\ plain(prev.arg)
         /\ SplitWhitespace(last.arg) = SplitWhitespace(prev.arg)) =>
           last.command = prev.command /\ last.params = prev.params
     /\ (last.op = "parse_line" /\ plain(last.arg) /\ last.arg # <<>>) =>
           last.command = CleanCommand(SplitWhitespace(last.arg)[1])
     /\ (last.op = "parse_line" /\ last.arg = P_Example) =>
           /\ last.command = <<"G", "1">>
           /\ DOMAIN last.params = {"X", "Y"}
           /\ last.params["X"] = <<"5", "0", ".", "0">>
           /\ last.params["Y"] = <<"2", "5", ".", "0">>

\* the same fields separated by one space and by several spaces were parsed
C10_Witness ==
  /\ BothParsed
  /\ prev.arg = P_Example
  /\ last.arg = P_Spaces
  /\ last.params = prev.params

\* C11: a line whose command normalizes to the same text as the spelling
\* given to register_callback makes parse_line invoke the callback registered
\* under that spelling, exactly once, with the normalized command.
C11_SameCommandSameHandler ==
  LET key == CleanCommand(prev.arg)
  IN (/\ prev.op = "register_callback"
      /\ last.op = "parse_line"
      /\ key # <<>>
      /\ key[1] \in {"G", "M"}
      /\ CleanCommand(SplitSpace(last.arg)[1]) = key) =>
        /\ Len(invoked) = 1
        /\ invoked[1].callback = prev.callback
        /\ invoked[1].command = key

\* registered as "G01", then invoked by a line spelled "g01"
C11_Witness ==
  /\ prev.op = "register_callback"
  /\ prev.arg = R_G01
  /\ last.op = "parse_line"
  /\ last.arg = P_g01
  /\ Len(invoked) = 1
  /\ invoked[1].callback = prev.callback
  /\ invoked[1].command = <<"G", "1">>

\* C12: _clean_command is idempotent; "G01" and "G1" give "G1", "M05" gives
\* "M5"; a command whose trimmed length is not three ("G001", "M150") is only
\* trimmed and upper-cased.
C12_CleanIdempotent ==
  last.op = "_clean_command" =>
    /\ prev.op = "_clean_command" => last.command = prev.command
    /\ last.arg \in {<<"G", "0", "1">>, <<"G", "1">>} => last.command = <<"G", "1">>
    /\ last.arg = <<"M", "0", "5">> => last.command = <<"M", "5">>
    /\ Len(Strip(last.arg)) # 3 => last.command = Upper(Strip(last.arg))

\* " g01" was normalized to "G1", and "G1" again to "G1"
C12_Witness ==
  /\ last.op = "_clean_command"
  /\ prev.op = "_clean_command"
  /\ prev.arg = <<" ", "g", "0", "1">>
  /\ last.arg = <<"G", "1">>
  /\ last.command = <<"G", "1">>

\* C13: parse_lines handles the lines in order; when the handler or the
\* dispatch of a line raises, the exception reaches the caller, no handler
\* is invoked for a later line, and the calls made for earlier lines stand.
C13_ParseLinesStopsAtFirstError ==
  last.op = "parse_lines" =>
    LET lines == last.arg
        cb == parser.callbacks
        command(k) == CleanCommand(SplitSpace(lines[k])[1])
        registered(k) == command(k) \in DOMAIN cb
        raises(k) == IF registered(k)
                       THEN HandlerError(cb[command(k)], ExtractParams(lines[k])) # NoError
                       ELSE parser.failure_mode = "error"
        failing == {k \in 1..Len(lines) : raises(k)}
        stop == IF failing = {} THEN Len(lines)
                ELSE CHOOSE k \in failing : \A k2 \in failing : k <= k2
    IN /\ {invoked[j].line : j \in 1..Len(invoked)} = {k \in 1..stop : registered(k)}
       /\ \A j1, j2 \in 1..Len(invoked) : j1 < j2 => invoked[j1].line < invoked[j2].line
       /\ \A j \in 1..Len(invoked) :
            invoked[j].callback = cb[command(invoked[j].line)]
       /\ (perr # NoError) <=> (failing # {})

\* of three lines the first was handled, the handler of the second raised,
\* and the third was not handled
C13_Witness ==
  /\ last.op = "parse_lines"
  /\ Len(last.arg) = 3
  /\ perr = FloatError
  /\ Len(invoked) = 2
  /\ invoked[1].line = 1
  /\ invoked[2].line = 2
  /\ last.arg[3] = P_M5

\* for each key, the value of the last token of the line carrying that key
LastTokenParams(line) ==
  LET t == Tail(SplitSpace(line))
      tok(j) == Upper(Strip(t[j]))
      J == {j \in 1..Len(t) : tok(j) # <<>>}
      lastOf(k) == CHOOSE j \in J :
                     tok(j)[1] = k /\ \A j2 \in J : tok(j2)[1] = k => j2 <= j
  IN [k \in {tok(j)[1] : j \in J} |-> Tail(tok(lastOf(k)))]

\* C18: the ParameterSet given to a handler is a function of the current
\* line only: each key has the value of the last token of that line with
\* that key, and no key or value of an earlier line is in it.
C18_ParamsOfCurrentLineOnly ==
  last.op = "parse_line" =>
    /\ last.params = LastTokenParams(last.arg)
    /\ \A j \in 1..Len(invoked) : invoked[j].params = LastTokenParams(last.arg)

\* after "G1 X50.0 Y25.0" the handler of "g01 x1 X2" got X = "2" and no Y
C18_Witness ==
  /\ BothParsed
  /\ prev.arg = P_Example
  /\ "Y" \in DOMAIN prev.params
  /\ last.arg = P_g01
  /\ Len(invoked) = 1
  /\ DOMAIN invoked[1].params = {"X"}
  /\ invoked[1].params["X"] = <<"2">>

\* C19: a failure_mode other than "error" and "ignore" makes the constructor
\* fail with the invalid-policy error and yields no parser; the policy of a
\* constructed parser never changes.
C19_PolicyFixedAtConstruction ==
  /\ [](/\ (last.op = "__init__" /\ last.arg \notin {"error", "ignore"}) =>
              (perr = InvalidPolicy /\ ~Constructed)
        /\ Constructed => parser.failure_mode \in {"error", "ignore"})
  /\ [][Constructed => parser'.failure_mode = parser.failure_mode]_vars

\* "ERROR" was refused, then "ignore" gave a parser
C19_Witness ==
  /\ prev.op = "__init__"
  /\ prev.arg = "ERROR"
  /\ last.op = "__init__"
  /\ last.arg = "ignore"
  /\ parser.failure_mode = "ignore"

(***************************************************************************)
(* manual_gantry_control.py : main and update_target (04_gui_input.py has  *)
(* the same update_target and the same loop).  The main thread is the      *)
(* control loop; ctl holds its position and locals.                        *)
(***************************************************************************)
E_1_1 == <<"1", " ", "1">>    \* "1 1"
E_1 == <<"1">>    \* "1"
E_Enter == <<>>    \* ""
E_1_A == <<"1", " ", "A">>    \* "1 A"
E_A_1 == <<"A", " ", "1">>    \* "A 1"
ConsoleEntries == {E_1_1, E_1, E_Enter, E_1_A, E_A_1}

InvalidInput == "Invalid input! Please enter valid numbers."

\* motor.position readings of this script, thousandths of rad: with the
\* targets they give errors inside, on and outside the dead-band
ManPosValues == {-15, 485}

\* lines 48-69: configure the motors, command zero velocity, sleep
Man_ZeroCommands ==
  /\ main_pc = "start"
  /\ velocity_command' = ZeroAxes
  /\ main_pc' = "settle"
  /\ UNCHANGED <<ParserVars, TargetVars, main_err, lineno, rparser, initial_positions,
                 pixels, leds, ctl, g1, stored, con>>

\* lines 72-85: capture the positions, make them the targets (X from motor 1,
\* Y from motor 3), start the input thread and enter the loop.
\* positions: the readings the motors may give
ManCapture(positions) ==
  /\ main_pc = "settle"
  /\ pos_lock = NoHolder
  /\ \E p \in positions :
       /\ initial_positions' = p
       /\ pos_target_X' = p["X1"]
       /\ pos_target_Y' = p["Y"]
       /\ stored' = <<p["X1"], p["Y"]>>
  /\ main_pc' = "loop"
  /\ ctl' = [ctl EXCEPT !.pc = "read"]
  /\ con' = [con EXCEPT !.pc = "input"]
  /\ UNCHANGED <<ParserVars, pos_lock, main_err, lineno, rparser, pixels, leds,
                 velocity_command, g1>>

Man_Capture == ManCapture([Axes -> ManPosValues])

\* lines 88-90: read the three positions
ManRead(positions) ==
  /\ ProcessRunning
  /\ ctl.pc = "read"
  /\ \E cur \in positions :
       ctl' = [ctl EXCEPT !.pc = "lock", !.current_positions = cur]
  /\ UNCHANGED <<ParserVars, MainVars, TargetVars, velocity_command, g1, stored, con>>

Man_ReadPositions == ManRead([Axes -> ManPosValues])

\* line 92: with pos_lock (acquire)
Man_Lock ==
  /\ ProcessRunning
  /\ ctl.pc = "lock"
  /\ pos_lock = NoHolder
  /\ pos_lock' = ControlThread
  /\ ctl' = [ctl EXCEPT !.pc = "errors"]
  /\ UNCHANGED <<ParserVars, MainVars, pos_target_X, pos_target_Y,
                 velocity_command, g1, stored, con>>

\* lines 93-95: the three errors, computed from the targets under the lock
Man_Errors ==
  /\ ProcessRunning
  /\ ctl.pc = "errors"
  /\ ctl' = [ctl EXCEPT !.pc = "unlock",
                        !.target_x = pos_target_X,
                        !.target_y = pos_target_Y,
                        !.pos_error = PosErrors(pos_target_X, pos_target_Y,
                                                ctl.current_positions)]
  /\ UNCHANGED <<ParserVars, MainVars, TargetVars, velocity_command, g1, stored, con>>

\* line 95/97: leaving the with block releases pos_lock
Man_Unlock ==
  /\ ProcessRunning
  /\ ctl.pc = "unlock"
  /\ pos_lock' = NoHolder
  /\ ctl' = [ctl EXCEPT !.pc = "drive"]
  /\ UNCHANGED <<ParserVars, MainVars, pos_target_X, pos_target_Y,
                 velocity_command, g1, stored, con>>

\* a dead-band that includes its boundary
DeadBanded_Inclusive(pos_error) ==
  [a \in Axes |-> IF Abs(pos_error[a]) <= DeadBand THEN 0 ELSE pos_error[a]]

\* lines 98-103: an error inside the dead-band counts as zero
DeadBanded(pos_error) ==
  [a \in Axes |-> IF Abs(pos_error[a]) < DeadBand THEN 0 ELSE pos_error[a]]

\* lines 98-119: dead-band, velocities, the three writes, status print, sleep.
\* A write that raises ends the main thread and with it the process.
\* failures: the outcomes of the writes ("none", or the axis whose write raises)
ManDrive(failures) ==
  /\ ProcessRunning
  /\ ctl.pc = "drive"
  /\ \E failed \in failures :
       LET vel == Velocities(DeadBanded(ctl.pos_error))
       IN /\ velocity_command' =
               [a \in Axes |-> IF a \in WrittenBefore(failed) THEN vel[a]
                               ELSE velocity_command[a]]
          /\ ctl' = [ctl EXCEPT !.pc = IF failed = "none" THEN "read" ELSE "dead",
                                !.failed = failed,
                                !.ran = TRUE]
          /\ main_pc' = IF failed = "none" THEN main_pc ELSE "crashed"
  /\ UNCHANGED <<ParserVars, TargetVars, main_err, lineno, rparser, initial_positions,
                 pixels, leds, g1, stored, con>>

Man_Drive == ManDrive({"none"} \cup Axes)

\* lines 32-34: input() returns an entry, which is split on whitespace
Con_Input ==
  /\ ProcessRunning
  /\ con.pc = "input"
  /\ \E entry \in ConsoleEntries :
       con' = [pc |-> "lock", targets |-> SplitWhitespace(entry), msg |-> "none",
               before |-> <<pos_target_X, pos_target_Y>>]
  /\ UNCHANGED <<ParserVars, MainVars, TargetVars, velocity_command, ctl, g1, stored>>

\* line 35: with pos_lock (acquire)
Con_Lock ==
  /\ ProcessRunning
  /\ con.pc = "lock"
  /\ pos_lock = NoHolder
  /\ pos_lock' = ConsoleThread
  /\ con' = [con EXCEPT !.pc = "set_x"]
  /\ UNCHANGED <<ParserVars, MainVars, pos_target_X, pos_target_Y,
                 velocity_command, ctl, g1, stored>>

\* lines 36-38: the first field, if any, becomes the X target; a ValueError
\* leaves the with block (releasing the lock) and is reported at line 43
Con_SetX ==
  /\ ProcessRunning
  /\ con.pc = "set_x"
  /\ IF Len(con.targets) >= 1
       THEN LET v == PyFloat(con.targets[1])
            IN /\ v.kind \in {"num", "err"}
               /\ IF v.kind = "num"
                    THEN /\ pos_target_X' = mm_to_radians(v.val)
                         /\ con' = [con EXCEPT !.pc = "set_y"]
                         /\ UNCHANGED pos_lock
                    ELSE /\ pos_lock' = NoHolder
                         /\ con' = [con EXCEPT !.pc = "input", !.msg = InvalidInput]
                         /\ UNCHANGED pos_target_X
       ELSE /\ con' = [con EXCEPT !.pc = "set_y"]
            /\ UNCHANGED <<pos_target_X, pos_lock>>
  /\ UNCHANGED <<ParserVars, MainVars, pos_target_Y, velocity_command, ctl, g1, stored>>

\* lines 39-41: the second field, if any, becomes the Y target
Con_SetY ==
  /\ ProcessRunning
  /\ con.pc = "set_y"
  /\ IF Len(con.targets) >= 2
       THEN LET v == PyFloat(con.targets[2])
            IN /\ v.kind \in {"num", "err"}
               /\ IF v.kind = "num"
                    THEN /\ pos_target_Y' = mm_to_radians(v.val)
                         /\ con' = [con EXCEPT !.pc = "unlock"]
                         /\ UNCHANGED pos_lock
                    ELSE /\ pos_lock' = NoHolder
                         /\ con' = [con EXCEPT !.pc = "input", !.msg = InvalidInput]
                         /\ UNCHANGED pos_target_Y
       ELSE /\ con' = [con EXCEPT !.pc = "unlock"]
            /\ UNCHANGED <<pos_target_Y, pos_lock>>
  /\ UNCHANGED <<ParserVars, MainVars, pos_target_X, velocity_command, ctl, g1, stored>>

\* update_target that leaves the with block without releasing pos_lock
Con_Unlock_KeepsLock ==
  /\ ProcessRunning
  /\ con.pc = "unlock"
  /\ con' = [con EXCEPT !.pc = "input"]
  /\ stored' = <<pos_target_X, pos_target_Y>>
  /\ UNCHANGED <<ParserVars, MainVars, TargetVars, velocity_command, ctl, g1>>

\* line 41/42: leaving the with block releases pos_lock
Con_Unlock ==
  /\ ProcessRunning
  /\ con.pc = "unlock"
  /\ pos_lock' = NoHolder
  /\ con' = [con EXCEPT !.pc = "input"]
  /\ stored' = <<pos_target_X, pos_target_Y>>
  /\ UNCHANGED <<ParserVars, MainVars, pos_target_X, pos_target_Y,
                 velocity_command, ctl, g1>>

\* manual_gantry_control.py as imported: pos_target_X = pos_target_Y = 0.0
Init_Console ==
  /\ parser = NoParser
  /\ perr = NoError
  /\ invoked = <<>>
  /\ last = NoCall
  /\ prev = NoCall
  /\ main_pc = "start"
  /\ main_err = NoError
  /\ lineno = 0
  /\ rparser = NoParser
  /\ pos_target_X = SettleTarget
  /\ pos_target_Y = SettleTarget
  /\ pos_lock = NoHolder
  /\ initial_positions = NotCaptured
  /\ velocity_command = ZeroAxes
  /\ pixels = NoStrip
  /\ leds = BlankStrip
  /\ ctl = CtlOff
  /\ g1 = [w \in Writers |-> IdleG1]
  /\ stored = <<SettleTarget, SettleTarget>>
  /\ con = ConOff

Next_Console ==
  \/ Man_ZeroCommands
  \/ Man_Capture
  \/ Man_ReadPositions
  \/ Man_Lock
  \/ Man_Errors
  \/ Man_Unlock
  \/ Man_Drive
  \/ Con_Input
  \/ Con_Lock
  \/ Con_SetX
  \/ Con_SetY
  \/ Con_Unlock

SpecConsole == Init_Console /\ [][Next_Console]_vars

\* The same program with motors that stay where they were captured and a
\* driver whose writes succeed, under fair scheduling: every thread that can
\* take a step eventually takes it, a thread waiting for pos_lock gets it if
\* it is released again and again, and input() may block for ever (no
\* fairness on Con_Input).
RestPositions == [a \in Axes |-> 485]
Man_CaptureAtRest == ManCapture({RestPositions})
Man_ReadAtRest == ManRead({initial_positions})
Man_DriveOK == ManDrive({"none"})

Next_ConsoleFair ==
  \/ Man_ZeroCommands
  \/ Man_CaptureAtRest
  \/ Man_ReadAtRest
  \/ Man_Lock
  \/ Man_Errors
  \/ Man_Unlock
  \/ Man_DriveOK
  \/ Con_Input
  \/ Con_Lock
  \/ Con_SetX
  \/ Con_SetY
  \/ Con_Unlock

SpecConsoleFair ==
  /\ Init_Console
  /\ [][Next_ConsoleFair]_vars
  /\ WF_vars(Man_ZeroCommands)
  /\ WF_vars(Man_CaptureAtRest)
  /\ WF_vars(Man_ReadAtRest)
  /\ SF_vars(Man_Lock)
  /\ WF_vars(Man_Errors)
  /\ WF_vars(Man_Unlock)
  /\ WF_vars(Man_DriveOK)
  /\ SF_vars(Con_Lock)
  /\ WF_vars(Con_SetX)
  /\ WF_vars(Con_SetY)
  /\ WF_vars(Con_Unlock)

(***************************************************************************)
(* Properties of manual_gantry_control.py                                  *)
(***************************************************************************)

\* C6: a console entry whose first field is a number and whose second field
\* is not is rejected as a whole: after the "Invalid input" message both
\* targets have the values they had before the entry.
C6_ConsoleRejectsWhole ==
  (/\ con.msg = InvalidInput
   /\ Len(con.targets) >= 2
   /\ PyFloat(con.targets[1]).kind = "num"
   /\ PyFloat(con.targets[2]).kind = "err") =>
     <<pos_target_X, pos_target_Y>> = con.before

\* C16: in manual_gantry_control.py every tick gives every axis the velocity
\* command 0 when |error| < 0.5 and 5 x error otherwise; the comparison is
\* strict: an error of exactly 0.5 gives 2.5, 0.3 gives 0, 1.0 gives 5.0.
C16_DeadBandStrict ==
  (ctl.ran /\ ctl.failed = "none" /\ ctl.pc \in {"read", "lock", "errors"}) =>
    \A a \in Axes :
      LET e == ctl.pos_error[a]
      IN /\ Abs(e) < 500 => velocity_command[a] = 0
         /\ Abs(e) >= 500 => velocity_command[a] = 5 * e
         /\ e = 500 => velocity_command[a] = 2500
         /\ e = 300 => velocity_command[a] = 0
         /\ e = 1000 => velocity_command[a] = 5000

\* one tick with an error of 0.3 on X1, 0.8 on X2 and exactly 0.5 on Y
C16_Witness ==
  /\ ctl.ran
  /\ ctl.failed = "none"
  /\ ctl.pc = "read"
  /\ ctl.pos_error = [X1 |-> 300, X2 |-> 800, Y |-> 500]
  /\ velocity_command = [X1 |-> 0, X2 |-> 4000, Y |-> 2500]

\* C15: under fair scheduling the loop completes tick after tick for ever,
\* each from the targets as last written, whether the input thread waits for
\* input for ever, keeps writing targets, or has hit an entry that failed to
\* parse inside the with block: pos_lock is not held while waiting for input.
C15_LoopNeverStarved ==
  /\ []<>(ctl.pc = "drive")
  /\ []<>(ctl.pc = "read")
  /\ [](con.pc = "input" => pos_lock # ConsoleThread)
  /\ [](ctl.pc = "unlock" =>
          ctl.pos_error = PosErrors(pos_target_X, pos_target_Y, ctl.current_positions))

\* after an entry that failed to parse, a tick has used the X target that
\* the entry wrote before it failed
C15_Witness ==
  /\ con.pc = "input"
  /\ con.msg = InvalidInput
  /\ Len(con.targets) = 2
  /\ ctl.pc = "drive"
  /\ ctl.ran
  /\ ctl.target_x = mm_to_radians(1000)
  /\ ctl.target_x # con.before[1]

\* C24: a handle_G1 call whose parameters carry no Y leaves pos_target_Y as
\* it is: the assignment of line 90 made by such a call stores the value
\* pos_target_Y already holds (the most recent completed write to Y), under
\* any interleaving with the other callers of handle_G1.
C24_OmittedAxisUnchanged ==
  [][\A w \in Writers :
       (/\ g1[w].pc = "write_y"
        /\ g1'[w].pc = "unlock"
        /\ "Y" \notin DOMAIN g1[w].params) => pos_target_Y' = pos_target_Y]_vars

\* C25: every index from 1 to num_leds addresses one element: handle_M150
\* with P = i, 1 <= i <= num_leds, and a finite brightness sets element i of
\* the strip (pixels[i - 1] in the code) to the scaled colour and leaves
\* every other element as it was.
C25_EveryIndexAddressable ==
  last.op = "handle_M150" =>
    LET led_index == safe_int(last.params, "P")
        brightness == safe_float(last.params, "I")
        scaled(key) == TruncInt(safe_int(last.params, key) * brightness.val)
    IN (1 <= led_index /\ led_index <= num_leds /\ brightness.kind = "num") =>
         pixels = [last.before EXCEPT
                     ![led_index] = <<scaled("R"), scaled("G"), scaled("B")>>]

\* C26: a handle_M150 call that changed the buffer has invoked show() before
\* it returns: the colours the LEDs display are those of the buffer.
C26_ChangeIsShown ==
  (last.op = "handle_M150" /\ pixels # last.before) => leds = pixels

\* C27: after any register_callback calls, failed ones included, every key
\* of the registry is left as it is by _clean_command and begins with G or M;
\* hence parse_line on an empty or whitespace-only line invokes no callback:
\* it raises the unregistered-command error under failure_mode "error", and
\* raises nothing and changes nothing under "ignore".
C27_KeysNormalized ==
  /\ \A k \in DOMAIN parser.callbacks :
        k # <<>> /\ CleanCommand(k) = k /\ k[1] \in {"G", "M"}
  /\ (last.op = "parse_line" /\ Strip(last.arg) = <<>>) =>
        /\ invoked = <<>>
        /\ parser.callbacks = last.before
        /\ parser.failure_mode = "error" => perr = UnregisteredCommand
        /\ parser.failure_mode = "ignore" => perr = NoError

\* a strict parser holding a callback rejects a line of two spaces right
\* after a register_callback call with the empty command failed
C27_Witness ==
  /\ prev.op = "register_callback"
  /\ prev.arg = R_Empty
  /\ last.op = "parse_line"
  /\ last.arg = P_Blank
  /\ parser.failure_mode = "error"
  /\ parser.callbacks # EmptyDict
  /\ invoked = <<>>
  /\ perr = UnregisteredCommand

\* C21: in manual_gantry_control.py, while the targets are still the captured
\* ones and no axis has moved since the capture, every tick commands velocity
\* 0 on all three motors, the second motor of the X group included.
C21_NoMotionAtStartup ==
  (/\ ctl.ran
   /\ ctl.failed = "none"
   /\ ctl.pc = "read"
   /\ ctl.current_positions = initial_positions
   /\ ctl.target_x = initial_positions["X1"]
   /\ ctl.target_y = initial_positions["Y"]) =>
     velocity_command = ZeroAxes

(***************************************************************************)
(* 03_three_motor.py : main and update_target.  The script has no lock.    *)
(* ctl holds the loop's position and locals, and in seen the pairs the     *)
(* targets held between console entries while the tick read them.          *)
(***************************************************************************)
Kp_pos_three == 10             \* 03_three_motor.py Kp_pos, Kp_pos_Y
DeadBand_three == 300          \* 0.3 rad

ThreeOff == [pc |-> "off", target_x |-> 0, target_x2 |-> 0, target_y |-> 0,
             current_positions |-> ZeroAxes, pos_error |-> ZeroAxes,
             failed |-> "none", ran |-> FALSE, seen |-> {}]

\* the console is between two entries, or at an entry it has not begun to
\* store, or past the last field of its entry
BetweenEntries ==
  \/ con.pc \in {"input", "set_x"}
  \/ con.pc = "set_y" /\ Len(con.targets) < 2

\* the loop is between its first and its last read of a target
InReads == ctl.pc \in {"error_2", "error_3"}

\* lines 62-65: command zero velocity, sleep
Three_ZeroCommands ==
  /\ main_pc = "start"
  /\ velocity_command' = ZeroAxes
  /\ main_pc' = "settle"
  /\ UNCHANGED <<ParserVars, TargetVars, main_err, lineno, rparser, initial_positions,
                 pixels, leds, ctl, g1, stored, con>>

\* lines 68-77: capture the positions, make them the targets, start the
\* input thread and enter the loop
Three_Capture ==
  /\ main_pc = "settle"
  /\ \E p \in [Axes -> PosValues] :
       /\ initial_positions' = p
       /\ pos_target_X' = p["X1"]
       /\ pos_target_Y' = p["Y"]
       /\ stored' = <<p["X1"], p["Y"]>>
  /\ main_pc' = "loop"
  /\ ctl' = [ctl EXCEPT !.pc = "read"]
  /\ con' = [con EXCEPT !.pc = "input"]
  /\ UNCHANGED <<ParserVars, pos_lock, main_err, lineno, rparser, pixels, leds,
                 velocity_command, g1>>

\* lines 83-85: read the three positions (the motors stay where they were)
Three_ReadPositions ==
  /\ ProcessRunning
  /\ ctl.pc = "read"
  /\ ctl' = [ctl EXCEPT !.pc = "error_1", !.current_positions = initial_positions]
  /\ UNCHANGED <<ParserVars, MainVars, TargetVars, velocity_command, g1, stored, con>>

\* line 88: pos_error_1 = pos_target_X - pos_current_1
Three_Error1 ==
  /\ ProcessRunning
  /\ ctl.pc = "error_1"
  /\ ctl' = [ctl EXCEPT !.pc = "error_2",
                        !.target_x = pos_target_X,
                        !.pos_error["X1"] = pos_target_X - ctl.current_positions["X1"],
                        !.seen = IF BetweenEntries
                                   THEN {<<pos_target_X, pos_target_Y>>}
                                   ELSE {con.before}]
  /\ UNCHANGED <<ParserVars, MainVars, TargetVars, velocity_command, g1, stored, con>>

\* line 89: pos_error_2 = pos_target_X - pos_current_2
Three_Error2 ==
  /\ ProcessRunning
  /\ ctl.pc = "error_2"
  /\ ctl' = [ctl EXCEPT !.pc = "error_3",
                        !.target_x2 = pos_target_X,
                        !.pos_error["X2"] = pos_target_X - ctl.current_positions["X2"]]
  /\ UNCHANGED <<ParserVars, MainVars, TargetVars, velocity_command, g1, stored, con>>

\* line 90: pos_error_3 = pos_target_Y - pos_current_3
Three_Error3 ==
  /\ ProcessRunning
  /\ ctl.pc = "error_3"
  /\ ctl' = [ctl EXCEPT !.pc = "drive",
                        !.target_y = pos_target_Y,
                        !.pos_error["Y"] = pos_target_Y - ctl.current_positions["Y"]]
  /\ UNCHANGED <<ParserVars, MainVars, TargetVars, velocity_command, g1, stored, con>>

\* lines 92-115: dead-band, velocities, the three writes, sleep.  A write
\* that raises ends the main thread and with it the process.
Three_Drive ==
  /\ ProcessRunning
  /\ ctl.pc = "drive"
  /\ \E failed \in {"none"} \cup Axes :
       LET vel == [a \in Axes |->
                    IF Abs(ctl.pos_error[a]) < DeadBand_three THEN 0
                    ELSE Kp_pos_three * ctl.pos_error[a]]
       IN /\ velocity_command' =
               [a \in Axes |-> IF a \in WrittenBefore(failed) THEN vel[a]
                               ELSE velocity_command[a]]
          /\ ctl' = [ctl EXCEPT !.pc = IF failed = "none" THEN "read" ELSE "dead",
                                !.failed = failed,
                                !.ran = TRUE]
          /\ main_pc' = IF failed = "none" THEN main_pc ELSE "crashed"
  /\ UNCHANGED <<ParserVars, TargetVars, main_err, lineno, rparser, initial_positions,
                 pixels, leds, g1, stored, con>>

\* what a step of the console adds to ctl.seen: the pair the targets hold
\* when the step ends an entry while the loop is reading
SeenAfter(x, y, ends) ==
  IF InReads /\ ends THEN ctl.seen \cup {<<x, y>>} ELSE ctl.seen

\* lines 24-26: input() returns an entry, which is split on whitespace
ThreeCon_Input ==
  /\ ProcessRunning
  /\ con.pc = "input"
  /\ \E entry \in ConsoleEntries :
       con' = [pc |-> "set_x", targets |-> SplitWhitespace(entry), msg |-> "none",
               before |-> <<pos_target_X, pos_target_Y>>]
  /\ UNCHANGED <<ParserVars, MainVars, TargetVars, velocity_command, ctl, g1, stored>>

\* lines 27-30: the first field, if any, becomes the X target
ThreeCon_SetX ==
  /\ ProcessRunning
  /\ con.pc = "set_x"
  /\ IF Len(con.targets) >= 1
       THEN LET v == PyFloat(con.targets[1])
            IN /\ v.kind \in {"num", "err"}
               /\ IF v.kind = "num"
                    THEN /\ pos_target_X' = mm_to_radians(v.val)
                         /\ con' = [con EXCEPT !.pc = "set_y"]
                         /\ ctl' = [ctl EXCEPT !.seen =
                                      SeenAfter(mm_to_radians(v.val), pos_target_Y,
                                                Len(con.targets) < 2)]
                    ELSE /\ con' = [con EXCEPT !.pc = "input", !.msg = InvalidInput]
                         /\ UNCHANGED <<pos_target_X, ctl>>
       ELSE /\ con' = [con EXCEPT !.pc = "set_y"]
            /\ UNCHANGED <<pos_target_X, ctl>>
  /\ UNCHANGED <<ParserVars, MainVars, pos_target_Y, pos_lock, velocity_command,
                 g1, stored>>

\* lines 31-36: the second field, if any, becomes the Y target
ThreeCon_SetY ==
  /\ ProcessRunning
  /\ con.pc = "set_y"
  /\ IF Len(con.targets) >= 2
       THEN LET v == PyFloat(con.targets[2])
            IN /\ v.kind \in {"num", "err"}
               /\ IF v.kind = "num"
                    THEN /\ pos_target_Y' = mm_to_radians(v.val)
                         /\ con' = [con EXCEPT !.pc = "input"]
                         /\ ctl' = [ctl EXCEPT !.seen =
                                      SeenAfter(pos_target_X, mm_to_radians(v.val), TRUE)]
                    ELSE /\ con' = [con EXCEPT !.pc = "input", !.msg = InvalidInput]
                         /\ ctl' = [ctl EXCEPT !.seen =
                                      SeenAfter(pos_target_X, pos_target_Y, TRUE)]
                         /\ UNCHANGED pos_target_Y
       ELSE /\ con' = [con EXCEPT !.pc = "input"]
            /\ UNCHANGED <<pos_target_Y, ctl>>
  /\ UNCHANGED <<ParserVars, MainVars, pos_target_X, pos_lock, velocity_command,
                 g1, stored>>

Init_Three ==
  /\ parser = NoParser
  /\ perr = NoError
  /\ invoked = <<>>
  /\ last = NoCall
  /\ prev = NoCall
  /\ main_pc = "start"
  /\ main_err = NoError
  /\ lineno = 0
  /\ rparser = NoParser
  /\ pos_target_X = SettleTarget
  /\ pos_target_Y = SettleTarget
  /\ pos_lock = NoHolder
  /\ initial_positions = NotCaptured
  /\ velocity_command = ZeroAxes
  /\ pixels = NoStrip
  /\ leds = BlankStrip
  /\ ctl = ThreeOff
  /\ g1 = [w \in Writers |-> IdleG1]
  /\ stored = <<SettleTarget, SettleTarget>>
  /\ con = ConOff

Next_Three ==
  \/ Three_ZeroCommands
  \/ Three_Capture
  \/ Three_ReadPositions
  \/ Three_Error1
  \/ Three_Error2
  \/ Three_Error3
  \/ Three_Drive
  \/ ThreeCon_Input
  \/ ThreeCon_SetX
  \/ ThreeCon_SetY

SpecThree == Init_Three /\ [][Next_Three]_vars

\* C23: in 03_three_motor.py no tick computes its errors from the new X
\* target with the old Y target of one console entry, nor from two different
\* X targets for the two X motors: the targets a tick has used are a pair
\* the targets held before or after an entry.
C23_TickSeesWholeEntry ==
  ctl.pc = "drive" =>
    /\ ctl.target_x = ctl.target_x2
    /\ <<ctl.target_x, ctl.target_y>> \in ctl.seen

(***************************************************************************)
(* SpecPlay: run_gcode_file of main.py plays a file of MaxPlayed lines     *)
(* while the control loop runs; the motors rest at the captured positions  *)
(* and the driver accepts every write.  Each parse_line call is recorded.  *)
(***************************************************************************)
MaxPlayed == 2                 \* lines of the file played in SpecPlay

PlayedLines == {L_blank, L_G0_X1, L_G1_X1_Y1, L_M150_R2_Ihalf}

\* the call recorded when line is handed to parser p
PlayedCall(p, line) ==
  [NoCall EXCEPT !.op = "parse_line", !.arg = line,
                 !.command = ExtractCommand(Strip(line)),
                 !.params = ExtractParams(Strip(line)),
                 !.before = p.callbacks]

\* run_gcode_file that uses the parser main passes to it
Play_Logged_PassedParser ==
  /\ main_pc = "play"
  /\ lineno < MaxPlayed
  /\ \E line \in PlayedLines :
       /\ PlayLine(parser, line)
       /\ last' = PlayedCall(parser, line)
  /\ prev' = last
  /\ UNCHANGED <<parser, perr, invoked>>

\* run_gcode_file lines 146-148, the call recorded
Play_Logged ==
  /\ main_pc = "play"
  /\ lineno < MaxPlayed
  /\ \E line \in PlayedLines :
       /\ PlayLine(rparser, line)
       /\ last' = PlayedCall(rparser, line)
  /\ prev' = last
  /\ UNCHANGED <<parser, perr, invoked>>

\* main.py when run_gcode_file reaches its loop (line 146)
Init_Play ==
  /\ parser = StrictParser
  /\ perr = NoError
  /\ invoked = <<>>
  /\ last = NoCall
  /\ prev = NoCall
  /\ main_pc = "play"
  /\ main_err = NoError
  /\ lineno = 0
  /\ rparser = PlayParser
  /\ pos_target_X = SettleTarget
  /\ pos_target_Y = SettleTarget
  /\ pos_lock = NoHolder
  /\ initial_positions = ZeroAxes
  /\ velocity_command = ZeroAxes
  /\ pixels = BlankStrip
  /\ leds = BlankStrip
  /\ ctl = [CtlOff EXCEPT !.pc = "lock"]
  /\ g1 = [w \in Writers |-> IdleG1]
  /\ stored = <<SettleTarget, SettleTarget>>
  /\ con = ConOff

Next_Play ==
  \/ Play_Logged
  \/ Play_End
  \/ HandleG1Step
  \/ Ctl_Lock
  \/ Ctl_ReadX
  \/ Ctl_ReadY
  \/ Ctl_Unlock
  \/ Ctl_DriveAtRest

SpecPlay == Init_Play /\ [][Next_Play]_vars

\* C28: run_gcode_file plays the file with a parser of failure_mode "ignore"
\* holding G1 and M150, although the parser main passes to it has
\* failure_mode "error"; the step that plays a line whose command is not
\* registered, a blank line included, raises nothing, changes neither the
\* targets nor the strip, enters no handler, and leaves playback at the
\* next line of the file.
C28_PlaybackIsPermissive ==
  /\ [](/\ parser.failure_mode = "error"
         /\ rparser.failure_mode = "ignore"
         /\ DOMAIN rparser.callbacks = {<<"G", "1">>, <<"M", "1", "5", "0">>}
         /\ main_err # UnregisteredCommand)
  /\ [][(lineno' = lineno + 1 /\ last'.command \notin DOMAIN rparser.callbacks) =>
          /\ main_pc' = "play"
          /\ main_err' = NoError
          /\ <<pos_target_X, pos_target_Y, pixels, leds, g1>>' =
               <<pos_target_X, pos_target_Y, pixels, leds, g1>>]_vars

\* a blank line was played, then the G1 line after it was played and handled
C28_Witness ==
  /\ prev.op = "parse_line"
  /\ prev.arg = L_blank
  /\ last.op = "parse_line"
  /\ last.arg = L_G1_X1_Y1
  /\ lineno = 2
  /\ main_pc = "play"
  /\ pos_target_X = mm_to_radians(1000)
  /\ main_err = NoError

====
